---- MODULE Spec2Model ----
(***************************************************************************)
(* The vux language server: the declaration index rebuilt on every        *)
(* document change, the hover and definition handlers that query it, and  *)
(* the diagnostics validation with its per-document settings cache.       *)
(*                                                                         *)
(* Texts are sequences of one-character strings; offsets are zero-based   *)
(* as in JavaScript.                                                       *)
(***************************************************************************)
EXTENDS Integers, Sequences, FiniteSets, TLC

(***************************************************************************)
(* JavaScript values                                                       *)
(***************************************************************************)
\* the value undefined where a string (a Map key, an escapedText) is expected
Undefined == <<"undefined">>
\* a numeric slot holding undefined, and one holding the number n
NoNumber == [defined |-> FALSE, n |-> 0]
Num(n) == [defined |-> TRUE, n |-> n]
\* x || 0 on a numeric slot
OrZero(x) == IF x.defined THEN x.n ELSE 0

Min(a, b) == IF a <= b THEN a ELSE b
Max(a, b) == IF a >= b THEN a ELSE b
SetMin(S) == CHOOSE x \in S : \A y \in S : x <= y
SetMax(S) == CHOOSE x \in S : \A y \in S : y <= x

\* the characters String.prototype.trim removes
WhiteSpace == {" ", "\t", "\n"}
UpperCase == {"A", "B", "C", "D", "E", "F"}
LowerCase == {"a", "b", "c", "d", "e", "f", "i", "l", "n", "o", "p", "r", "s", "t", "u", "v", "x"}
\* \w of the regular expression
WordChars == UpperCase \cup LowerCase

\* String.prototype.substring(a, b): both clamped to [0, length], swapped when a > b
substring(s, a, b) ==
    LET ca == Max(0, Min(a, Len(s)))
        cb == Max(0, Min(b, Len(s)))
    IN  SubSeq(s, Min(ca, cb) + 1, Max(ca, cb))

\* text.substring(0, end) where end may be undefined (then the whole text)
substringTo(s, end) == IF end.defined THEN substring(s, 0, end.n) ELSE s

\* String.prototype.lastIndexOf(ch, from): the last index <= from holding ch, or -1
lastIndexOf(s, ch, from) ==
    LET hits == {i \in 0..Min(from, Len(s) - 1) : s[i + 1] = ch}
    IN  IF hits = {} THEN -1 ELSE SetMax(hits)

\* String.prototype.indexOf(ch, from): the first index >= from holding ch, or -1
indexOf(s, ch, from) ==
    LET hits == {i \in Max(from, 0)..(Len(s) - 1) : s[i + 1] = ch}
    IN  IF hits = {} THEN -1 ELSE SetMin(hits)

\* String.prototype.trim
trim(s) ==
    LET keep == {i \in 1..Len(s) : s[i] \notin WhiteSpace}
    IN  IF keep = {} THEN <<>> ELSE SubSeq(s, SetMin(keep), SetMax(keep))

\* s.split("\n").length - 1
lineOf(s) == Cardinality({i \in 1..Len(s) : s[i] = "\n"})

(***************************************************************************)
(* TextDocument (vscode-languageserver-textdocument)                       *)
(***************************************************************************)
\* the offsets at which the lines of a text start
lineOffsets(text) == {0} \cup {i \in 1..Len(text) : text[i] = "\n"}
lineCount(text) == Cardinality(lineOffsets(text))
\* the offset of the start of line l (l < lineCount)
lineStart(text, l) ==
    CHOOSE o \in lineOffsets(text) :
        Cardinality({p \in lineOffsets(text) : p < o}) = l

\* TextDocument.offsetAt
offsetAt(text, position) ==
    IF position.line >= lineCount(text) THEN Len(text)
    ELSE LET lineOffset == lineStart(text, position.line)
             nextLineOffset == IF position.line + 1 < lineCount(text)
                               THEN lineStart(text, position.line + 1)
                               ELSE Len(text)
         IN  Max(Min(lineOffset + position.character, nextLineOffset), lineOffset)

\* TextDocument.getText(range)
getText(text, start, end) == substring(text, offsetAt(text, start), offsetAt(text, end))

\* TextDocument.positionAt
positionAt(text, offset) ==
    LET o == Max(0, Min(offset, Len(text)))
        l == Cardinality({p \in lineOffsets(text) : p <= o}) - 1
    IN  [line |-> l, character |-> o - lineStart(text, l)]

(***************************************************************************)
(* Syntax trees, as ts.createSourceFile returns them                       *)
(***************************************************************************)
\* a name node: an identifier, a binding pattern (no escapedText), or no node
Identifier(text, pos, end) ==
    [node |-> "Identifier", escapedText |-> text, pos |-> pos, end |-> end]
BindingPattern(pos, end) ==
    [node |-> "ObjectBindingPattern", escapedText |-> Undefined, pos |-> pos, end |-> end]
NoNode == [node |-> "undefined", escapedText |-> Undefined, pos |-> 0, end |-> 0]

\* name?.escapedText, name?.pos, name?.end
escapedTextOf(name) == IF name.node = "undefined" THEN Undefined ELSE name.escapedText
posOf(name) == IF name.node = "undefined" THEN NoNumber ELSE Num(name.pos)
endOf(name) == IF name.node = "undefined" THEN NoNumber ELSE Num(name.end)

FunctionDeclaration(name, end) ==
    [kind |-> "FunctionDeclaration", name |-> name, end |-> end,
     declarations |-> <<>>, members |-> <<>>]
VariableDeclaration(name, pos, end) == [name |-> name, pos |-> pos, end |-> end]
VariableStatement(declarations, end) ==
    [kind |-> "VariableStatement", name |-> NoNode, end |-> end,
     declarations |-> declarations, members |-> <<>>]
ClassElement(name) == [name |-> name]
ClassDeclaration(name, members, end) ==
    [kind |-> "ClassDeclaration", name |-> name, end |-> end,
     declarations |-> <<>>, members |-> members]
ExpressionStatement(end) ==
    [kind |-> "ExpressionStatement", name |-> NoNode, end |-> end,
     declarations |-> <<>>, members |-> <<>>]

(***************************************************************************)
(* The documents the client sends.  Each is its text, the root elements    *)
(* parseHTMLDocument finds in it and the statements ts.createSourceFile    *)
(* returns for the text between the first root's tags.                     *)
(***************************************************************************)
StartTag == <<"<", "s", ">">>
EndTag == <<"<", "/", "s", ">">>
\* <s>script</s>: one root element around the script
InRoot(script, statements) ==
    [text |-> StartTag \o script \o EndTag,
     roots |-> <<[startTagEnd |-> Num(Len(StartTag)),
                  endTagStart |-> Num(Len(StartTag) + Len(script))]>>,
     statements |-> statements]

NameA == <<"a">>
NameB == <<"b">>

Catalog ==
    [ \* the empty document: no root element
      Empty |-> [text |-> <<>>, roots |-> <<>>, statements |-> <<>>],
      \* "<s>\nvar a": the root is never closed, so the script is "<s>"
      Unclosed |->
        [text |-> StartTag \o <<"\n", "v", "a", "r", " ", "a">>,
         roots |-> <<[startTagEnd |-> Num(Len(StartTag)), endTagStart |-> NoNumber]>>,
         statements |-> <<ExpressionStatement(3)>>],
      \* " var a " and an empty line
      VarA |-> InRoot(<<"\n", " ", "v", "a", "r", " ", "a", " ", "\n", "\n">>,
                 <<VariableStatement(<<VariableDeclaration(Identifier(NameA, 5, 7), 5, 7)>>, 7)>>),
      \* "var<TAB>b"
      VarTabB |-> InRoot(<<"\n", "v", "a", "r", "\t", "b", "\n">>,
                 <<VariableStatement(<<VariableDeclaration(Identifier(NameB, 4, 6), 4, 6)>>, 6)>>),
      \* "function a (){}"
      FunA |-> InRoot(<<"\n", "f", "u", "n", "c", "t", "i", "o", "n", " ", "a", " ",
                        "(", ")", "{", "}", "\n">>,
                 <<FunctionDeclaration(Identifier(NameA, 9, 11), 16)>>),
      \* "export default function(){}"
      FunAnon |-> InRoot(<<"\n", "e", "x", "p", "o", "r", "t", " ", "d", "e", "f", "a", "u",
                           "l", "t", " ", "f", "u", "n", "c", "t", "i", "o", "n", "(", ")",
                           "{", "}", "\n">>,
                 <<FunctionDeclaration(NoNode, 28)>>),
      \* "class a {" / "b" / "}"
      ClassA |-> InRoot(<<"\n", "c", "l", "a", "s", "s", " ", "a", " ", "{", "\n", "b", "\n",
                          "}", "\n">>,
                 <<ClassDeclaration(Identifier(NameA, 6, 8),
                                    <<ClassElement(Identifier(NameB, 10, 12))>>, 14)>>),
      \* "export default class {}"
      ClassAnon |-> InRoot(<<"\n", "e", "x", "p", "o", "r", "t", " ", "d", "e", "f", "a", "u",
                             "l", "t", " ", "c", "l", "a", "s", "s", " ", "{", "}", "\n">>,
                 <<ClassDeclaration(NoNode, <<>>, 24)>>),
      \* "class a {constructor(){}}"
      ClassCtor |-> InRoot(<<"\n", "c", "l", "a", "s", "s", " ", "a", " ", "{", "c", "o", "n",
                             "s", "t", "r", "u", "c", "t", "o", "r", "(", ")", "{", "}", "}",
                             "\n">>,
                 <<ClassDeclaration(Identifier(NameA, 6, 8), <<ClassElement(NoNode)>>, 26)>>),
      \* "var {a}=b"
      Destruct |-> InRoot(<<"\n", "v", "a", "r", " ", "{", "a", "}", "=", "b", "\n">>,
                 <<VariableStatement(<<VariableDeclaration(BindingPattern(4, 8), 4, 10)>>, 10)>>),
      \* "function a (){}" / "var a," / "b"
      FunVar |-> InRoot(<<"\n", "f", "u", "n", "c", "t", "i", "o", "n", " ", "a", " ", "(", ")",
                          "{", "}", "\n", "v", "a", "r", " ", "a", ",", "\n", "b", "\n">>,
                 <<FunctionDeclaration(Identifier(NameA, 9, 11), 16),
                   VariableStatement(<<VariableDeclaration(Identifier(NameA, 20, 22), 20, 22),
                                       VariableDeclaration(Identifier(NameB, 23, 25), 23, 25)>>,
                                     25)>>),
      \* "function" / "a(){" / "}"
      FunLines |-> InRoot(<<"\n", "f", "u", "n", "c", "t", "i", "o", "n", "\n", "a", "(", ")",
                            "{", "\n", "}", "\n">>,
                 <<FunctionDeclaration(Identifier(NameA, 9, 11), 16)>>),
      \* "var b" / "class a {constructor(){}}" / "function a (){}"
      CtorFun |-> InRoot(<<"\n", "v", "a", "r", " ", "b", "\n",
                           "c", "l", "a", "s", "s", " ", "a", " ", "{", "c", "o", "n", "s", "t",
                           "r", "u", "c", "t", "o", "r", "(", ")", "{", "}", "}", "\n",
                           "f", "u", "n", "c", "t", "i", "o", "n", " ", "a", " ", "(", ")",
                           "{", "}", "\n">>,
                 <<VariableStatement(<<VariableDeclaration(Identifier(NameB, 4, 6), 4, 6)>>, 6),
                   ClassDeclaration(Identifier(NameA, 12, 14), <<ClassElement(NoNode)>>, 32),
                   FunctionDeclaration(Identifier(NameA, 41, 43), 48)>>),
      \* "ABc AB A": one all-uppercase word
      Upper1 |-> InRoot(<<"\n", "A", "B", "c", " ", "A", "B", " ", "A", "\n">>,
                 <<ExpressionStatement(4), ExpressionStatement(7), ExpressionStatement(9)>>),
      \* "AB" / "CD EF": three all-uppercase words
      Upper3 |-> InRoot(<<"\n", "A", "B", "\n", "C", "D", " ", "E", "F", "\n">>,
                 <<ExpressionStatement(3), ExpressionStatement(6), ExpressionStatement(9)>>)
    ]

\* the documents of the index specification and of the diagnostics specification
IndexDocs == {"Empty", "Unclosed", "VarA", "VarTabB", "FunA", "FunAnon", "ClassA",
              "ClassAnon", "ClassCtor", "Destruct", "FunVar", "FunLines", "CtorFun"}
HoverDocs == {"VarA", "VarTabB", "ClassAnon", "FunA", "ClassA"}
DiagDocs == {"Empty", "Upper1", "Upper3"}
Uris == {"u1", "u2"}

\* the configuration-changed notifications a behaviour may hold
MaxNotifications == 2
\* the validation runs that may be suspended at once
MaxRuns == 2

(***************************************************************************)
(* State                                                                   *)
(***************************************************************************)
VARIABLES
    initialized,            \* the initialize request has been answered
    hasConfigurationCapability,
    hasWorkspaceFolderCapability,
    hasDiagnosticRelatedInformationCapability,
    documents,              \* the document manager: the open documents, in the order opened
    declarationMap,         \* name -> DeclarationItem
    currentHover,           \* the last hovered word, undefined at start
    globalSettings,
    documentSettings,       \* uri -> the configuration request caching its settings
    requests,               \* the workspace/configuration requests in use, by promise
    runs,                   \* the validateTextDocument calls suspended at their await
    notifications,          \* history: the configuration-changed notifications handled
    hovered,                \* history: a hover request has been handled
    lastWord,               \* history: the last non-empty word a hover produced
    lastOp                  \* history: the last handler that ran, its input and its result

indexVars == <<documents, declarationMap, currentHover, hovered, lastWord>>
capabilityVars == <<initialized, hasConfigurationCapability, hasWorkspaceFolderCapability,
                    hasDiagnosticRelatedInformationCapability>>
settingsVars == <<globalSettings, documentSettings, requests, notifications>>
diagnosticVars == <<runs>>
vars == <<indexVars, capabilityVars, settingsVars, diagnosticVars, lastOp>>

\* a set that keeps the value of a key already there
MapSetIfAbsent(map, key, value) ==
    [k \in DOMAIN map \cup {key} |-> IF k \in DOMAIN map THEN map[k] ELSE value]

\* Map.prototype.set, has and delete on a map held as a function on its keys
MapSet(map, key, value) ==
    [k \in DOMAIN map \cup {key} |-> IF k = key THEN value ELSE map[k]]
MapHas(map, key) == key \in DOMAIN map
\* a delete that removes nothing
MapDeleteNothing(map, key) == map
MapDelete(map, key) == [k \in DOMAIN map \ {key} |-> map[k]]
EmptyMap == [k \in {} |-> Undefined]

defaultSettings == [maxNumberOfProblems |-> 1000]

\* the record kept of the last handler run; fields a handler does not use are blank
Op(name, uri) ==
    [op |-> name, uri |-> uri, params |-> <<>>, doc |-> "", cursor |-> "", tooltip |-> <<>>,
     locations |-> <<>>, threw |-> FALSE, afterHoverOn |-> <<>>, result |-> <<>>]

Init ==
    /\ initialized = FALSE
    /\ hasConfigurationCapability = FALSE
    /\ hasWorkspaceFolderCapability = FALSE
    /\ hasDiagnosticRelatedInformationCapability = FALSE
    /\ documents = <<>>
    /\ declarationMap = EmptyMap
    /\ currentHover = Undefined
    /\ globalSettings = defaultSettings
    /\ documentSettings = EmptyMap
    /\ requests = EmptyMap
    /\ runs = <<>>
    /\ notifications = 0
    /\ hovered = FALSE
    /\ lastWord = Undefined
    /\ lastOp = Op("none", "")

(***************************************************************************)
(* The declaration index: documents.onDidChangeContent                     *)
(***************************************************************************)
\* a string is truthy unless it is undefined or empty
truthy(text) == text # Undefined /\ text # <<>>

NoChildren == [present |-> FALSE, items |-> <<>>]
DeclarationItem(type, pos, end, line, escapedText, children) ==
    [type |-> type, pos |-> pos, end |-> end, line |-> line,
     escapedText |-> escapedText, children |-> children]

\* the item of one class member; reading escapedText of a missing name throws
memberItem(text, m) ==
    DeclarationItem("member", posOf(m.name), endOf(m.name),
                    lineOf(substringTo(text, endOf(m.name))), m.name.escapedText, NoChildren)
memberThrows(m) == m.name.node = "undefined"

functionItem(text, node) ==
    DeclarationItem("function", Num(node.name.pos), Num(node.name.end),
                    lineOf(substring(text, 0, node.name.end)), node.name.escapedText,
                    NoChildren)
variableItem(text, node) ==
    DeclarationItem("var", Num(node.declarations[1].pos), Num(node.declarations[1].end),
                    lineOf(substring(text, 0, node.end)),
                    node.declarations[1].name.escapedText, NoChildren)
classItem(text, node) ==
    DeclarationItem("class", posOf(node.name), endOf(node.name),
                    lineOf(substringTo(text, endOf(node.name))), escapedTextOf(node.name),
                    [present |-> TRUE,
                     items |-> [i \in 1..Len(node.members) |-> memberItem(text, node.members[i])]])

\* one call of the forEach callback: the map after it, and whether it threw
visitStatement(map, text, node) ==
    IF node.kind = "FunctionDeclaration"
    THEN IF truthy(escapedTextOf(node.name))
         THEN [map |-> MapSet(map, node.name.escapedText, functionItem(text, node)),
               threw |-> FALSE]
         ELSE [map |-> map, threw |-> FALSE]
    ELSE IF node.kind = "VariableStatement"
    THEN [map |-> MapSet(map, node.declarations[1].name.escapedText, variableItem(text, node)),
          threw |-> FALSE]
    ELSE IF node.kind = "ClassDeclaration"
    THEN IF \E i \in 1..Len(node.members) : memberThrows(node.members[i])
         THEN [map |-> map, threw |-> TRUE]
         ELSE [map |-> MapSet(map, escapedTextOf(node.name), classItem(text, node)),
               threw |-> FALSE]
    ELSE [map |-> map, threw |-> FALSE]

\* sourceFile.statements.forEach from statement i on; a throw ends the loop
RECURSIVE forEachStatement(_, _, _, _)
forEachStatement(map, text, statements, i) ==
    IF i > Len(statements) THEN [map |-> map, threw |-> FALSE]
    ELSE LET r == visitStatement(map, text, statements[i])
         IN  IF r.threw THEN r ELSE forEachStatement(r.map, text, statements, i + 1)

\* the text between the first root's tags; reading a field of no root throws
scriptText(doc) ==
    substring(doc.text, OrZero(doc.roots[1].startTagEnd), OrZero(doc.roots[1].endTagStart))

\* a rebuild that starts from an empty index
rebuildFromEmpty(map, doc) ==
    IF Len(doc.roots) = 0 THEN [map |-> map, threw |-> TRUE]
    ELSE forEachStatement(EmptyMap, scriptText(doc), doc.statements, 1)

\* the handler's effect on the index for a document: the map after, and whether it threw
rebuild(map, doc) ==
    IF Len(doc.roots) = 0 THEN [map |-> map, threw |-> TRUE]
    ELSE forEachStatement(map, scriptText(doc), doc.statements, 1)

(***************************************************************************)
(* The document manager (TextDocuments)                                    *)
(***************************************************************************)
openUris == {documents[i].uri : i \in 1..Len(documents)}
\* documents.get(uri), for an open uri: the Catalog key of its content
documentOf(uri) == (CHOOSE i \in 1..Len(documents) : documents[i].uri = uri)
contentOf(uri) == documents[documentOf(uri)].doc

\* a validation run may continue as soon as its settings promise is resolved;
\* promise continuations run before the next event is handled
settled(run) == run.promise.request = <<>> \/ requests[run.promise.request].answered
\* an event loop that takes the next event before the continuations that are due
idleAlways == TRUE
idle == \A i \in 1..Len(runs) : ~settled(runs[i])

\* documents.onDidChangeContent: rebuild the index from the changed document
onDidChangeContent(uri, doc) ==
    LET r == rebuild(declarationMap, Catalog[doc])
    IN  /\ declarationMap' = r.map
        /\ lastOp' = [Op("didChangeContent", uri) EXCEPT !.doc = doc, !.threw = r.threw]
        /\ UNCHANGED <<currentHover, hovered, lastWord, capabilityVars, settingsVars, runs>>

\* textDocument/didOpen: the manager adds the document and fires onDidChangeContent
didOpen(uri, doc) ==
    /\ initialized /\ idle
    /\ uri \notin openUris
    /\ documents' = Append(documents, [uri |-> uri, doc |-> doc])
    /\ onDidChangeContent(uri, doc)

\* textDocument/didChange: the manager updates the document in place and fires
\* onDidChangeContent
didChange(uri, doc) ==
    /\ initialized /\ idle
    /\ uri \in openUris
    /\ documents' = [documents EXCEPT ![documentOf(uri)].doc = doc]
    /\ onDidChangeContent(uri, doc)

(***************************************************************************)
(* Hover and definition                                                    *)
(***************************************************************************)
getWord(text, index) ==
    LET first == lastIndexOf(text, " ", index)
        last == indexOf(text, " ", index)
    IN  substring(text, IF first # -1 THEN first ELSE 0,
                        IF last # -1 THEN last ELSE Len(text) - 1)

\* the text of the cursor's line and the cursor's offset in it
hoverLine(text, position) ==
    getText(text, [line |-> position.line, character |-> 0],
                  [line |-> position.line + 1, character |-> 0])
hoverIndex(text, position) ==
    offsetAt(text, position) - offsetAt(text, [line |-> position.line, character |-> 0])
hoverWord(text, position) == trim(getWord(hoverLine(text, position), hoverIndex(text, position)))

\* declarationMap.get(word)?.pos and ?.end
itemPos(word) == IF MapHas(declarationMap, word) THEN declarationMap[word].pos ELSE NoNumber
itemEnd(word) == IF MapHas(declarationMap, word) THEN declarationMap[word].end ELSE NoNumber

\* the number of characters of line l, its line break excluded
lineLength(text, l) ==
    LET line == hoverLine(text, [line |-> l, character |-> 0])
    IN  IF Len(line) > 0 /\ line[Len(line)] = "\n" THEN Len(line) - 1 ELSE Len(line)

\* the positions a client sends for a text: a line of it, a column on that line
positionsIn(text) ==
    UNION {{[line |-> l, character |-> c] : c \in 0..lineLength(text, l)} :
              l \in 0..(lineCount(text) - 1)}

\* history: what is under the cursor
cursorOn(text, position) ==
    LET line == hoverLine(text, position)
    IN  IF lineLength(text, position.line) = 0 THEN "emptyLine"
        ELSE IF position.character >= lineLength(text, position.line) THEN "endOfLine"
        ELSE IF line[position.character + 1] = " " THEN "space"
        ELSE IF line[position.character + 1] = "\t" THEN "tab"
        ELSE "word"

\* the word and the cursor class of every position of every document, tabulated
hoverResults ==
    [doc \in DOMAIN Catalog |->
        [position \in positionsIn(Catalog[doc].text) |->
            [word |-> hoverWord(Catalog[doc].text, position),
             cursor |-> cursorOn(Catalog[doc].text, position)]]]

\* a lookup that falls back to the first open document
documentsGetOrFirst(uri) ==
    IF uri \in openUris THEN <<contentOf(uri)>>
    ELSE IF documents # <<>> THEN <<documents[1].doc>> ELSE <<>>

\* documents.get(uri): <<the document>>, or <<>> for undefined
documentsGet(uri) == IF uri \in openUris THEN <<contentOf(uri)>> ELSE <<>>

\* connection.onHover
onHover(uri, position) ==
    /\ initialized /\ idle
    /\ hovered' = TRUE
    /\ IF documentsGet(uri) # <<>>
       THEN LET word == hoverResults[documentsGet(uri)[1]][position].word
                cursor == hoverResults[documentsGet(uri)[1]][position].cursor
            IN  IF word # <<>>
                THEN /\ currentHover' = word
                     /\ lastWord' = word
                     /\ lastOp' = [Op("hover", uri) EXCEPT
                                     !.params = position, !.doc = documentsGet(uri)[1],
                                     !.cursor = cursor,
                                     !.tooltip = <<[word |-> word, pos |-> itemPos(word),
                                                    end |-> itemEnd(word)]>>]
                ELSE /\ UNCHANGED <<currentHover, lastWord>>
                     /\ lastOp' = [Op("hover", uri) EXCEPT
                                     !.params = position, !.doc = documentsGet(uri)[1],
                                     !.cursor = cursor]
       ELSE /\ UNCHANGED <<currentHover, lastWord>>
            /\ lastOp' = [Op("hover", uri) EXCEPT !.params = position,
                                                    !.cursor = "noDocument"]
    /\ UNCHANGED <<documents, declarationMap, capabilityVars, settingsVars, diagnosticVars>>

\* locations that start at the item's end offset
definitionLocationsAtEnd(map, hover, uri) ==
    IF MapHas(map, hover)
    THEN LET de == map[hover]
         IN  <<[uri |-> uri,
                range |-> [start |-> [line |-> de.line, character |-> de.end],
                           end |-> [line |-> de.line, character |-> Num(0)]]]>>
    ELSE <<>>

\* the locations connection.onDefinition returns for a request in document uri
definitionLocations(map, hover, uri) ==
    IF MapHas(map, hover)
    THEN LET de == map[hover]
         IN  <<[uri |-> uri,
                range |-> [start |-> [line |-> de.line, character |-> de.pos],
                           end |-> [line |-> de.line, character |-> Num(0)]]]>>
    ELSE <<>>

\* connection.onDefinition
onDefinition(uri) ==
    /\ initialized /\ idle
    /\ lastOp' = [Op("definition", uri) EXCEPT
                    !.locations = definitionLocations(declarationMap, currentHover, uri),
                    !.afterHoverOn = IF lastOp.op = "hover" /\ Len(lastOp.tooltip) = 1
                                     THEN lastOp.tooltip[1].word ELSE <<>>]
    /\ UNCHANGED <<indexVars, capabilityVars, settingsVars, diagnosticVars>>

(***************************************************************************)
(* Settings                                                                *)
(***************************************************************************)
\* the settings a client configures; the section may also be missing
ClientSettings == {[maxNumberOfProblems |-> 2]}
\* change.settings.languageServerExample: <<settings>>, or <<>> when the section is missing
Sections == {<<>>} \cup {<<x>> : x \in ClientSettings}

\* a promise of settings: Promise.resolve(value), or the promise of a
\* workspace/configuration request; madeAt is the number of configuration
\* notifications handled when it was made (history)
resolvedPromise(value, now) == [request |-> <<>>, settings |-> value, madeAt |-> now]
requestPromise(uri, now) == [request |-> <<uri, now>>, settings |-> defaultSettings, madeAt |-> now]

\* getDocumentSettings(resource) on the cache and the requests of st
getDocumentSettings(st, resource, now) ==
    IF ~hasConfigurationCapability
    THEN [st EXCEPT !.result = resolvedPromise(st.globalSettings, now)]
    ELSE IF MapHas(st.documentSettings, resource)
    THEN [st EXCEPT !.result = st.documentSettings[resource]]
    ELSE LET promise == requestPromise(resource, now)
         IN  [st EXCEPT !.result = promise,
                        !.requests = MapSet(st.requests, promise.request,
                                            [answered |-> FALSE, settings |-> defaultSettings]),
                        !.documentSettings = MapSet(st.documentSettings, resource, promise)]

\* validateTextDocument up to its await: the run waits for the settings
validateTextDocument(st, uri, now) ==
    LET got == getDocumentSettings(st, uri, now)
    IN  [got EXCEPT !.runs = Append(got.runs,
                                    [uri |-> uri, live |-> TRUE, doc |-> "",
                                     promise |-> got.result, startedAt |-> now])]

\* documents.all().forEach(validateTextDocument), from document i on
RECURSIVE forEachDocument(_, _, _)
forEachDocument(st, i, now) ==
    IF i > Len(documents) THEN st
    ELSE forEachDocument(validateTextDocument(st, documents[i].uri, now), i + 1, now)

\* the requests some promise still held by the cache or by a run refers to
inUse(reqs, cache, rs) ==
    LET held == {cache[u].request : u \in DOMAIN cache}
                \cup {rs[i].promise.request : i \in 1..Len(rs)}
    IN  [id \in DOMAIN reqs \cap held |-> reqs[id]]

\* a handler that leaves the cache as it is
keepSettings(cache) == cache

\* documentSettings.clear()
clearSettings(cache) == EmptyMap

\* connection.onDidChangeConfiguration; section is change.settings.languageServerExample
onDidChangeConfiguration(section) ==
    /\ initialized /\ idle
    /\ notifications < MaxNotifications
    /\ Len(runs) + Len(documents) <= MaxRuns
    /\ notifications' = notifications + 1
    /\ LET st0 == [documentSettings |-> IF hasConfigurationCapability
                                        THEN clearSettings(documentSettings)
                                        ELSE documentSettings,
                   globalSettings |-> IF hasConfigurationCapability THEN globalSettings
                                      ELSE IF section = <<>> THEN defaultSettings
                                      ELSE section[1],
                   requests |-> requests, runs |-> runs, result |-> <<>>]
           st == forEachDocument(st0, 1, notifications + 1)
       IN  /\ globalSettings' = st.globalSettings
           /\ documentSettings' = st.documentSettings
           /\ runs' = st.runs
           /\ requests' = inUse(st.requests, st.documentSettings, st.runs)
    /\ lastOp' = Op("didChangeConfiguration", "")
    /\ UNCHANGED <<indexVars, capabilityVars>>

\* the client answers a workspace/configuration request
configurationResponse(id, settings) ==
    /\ idle
    /\ id \in DOMAIN requests /\ ~requests[id].answered
    /\ requests' = [requests EXCEPT ![id] = [answered |-> TRUE, settings |-> settings]]
    /\ lastOp' = Op("configurationResponse", id[1])
    /\ UNCHANGED <<indexVars, capabilityVars, globalSettings, documentSettings,
                   notifications, diagnosticVars>>

\* documents.onDidClose: the manager drops the document; runs keep its object
onDidClose(uri) ==
    /\ initialized /\ idle
    /\ uri \in openUris
    /\ documents' = SelectSeq(documents, LAMBDA d : d.uri # uri)
    /\ documentSettings' = MapDelete(documentSettings, uri)
    /\ runs' = [i \in 1..Len(runs) |->
                  IF runs[i].uri = uri /\ runs[i].live
                  THEN [runs[i] EXCEPT !.live = FALSE, !.doc = contentOf(uri)]
                  ELSE runs[i]]
    /\ requests' = inUse(requests, documentSettings', runs')
    /\ lastOp' = Op("didClose", uri)
    /\ UNCHANGED <<declarationMap, currentHover, hovered, lastWord, capabilityVars,
                   globalSettings, notifications>>

(***************************************************************************)
(* Diagnostics: validateTextDocument after its await                       *)
(***************************************************************************)
\* \b at offset i: exactly one of the characters before and after i is a word character
isWordAt(text, i) == i >= 0 /\ i < Len(text) /\ text[i + 1] \in WordChars
wordBoundary(text, i) == isWordAt(text, i - 1) # isWordAt(text, i)

\* the lengths n for which \b[A-Z]{n}\b matches at offset i, n >= 2
matchLengths(text, i) ==
    {n \in 2..(Len(text) - i) :
        /\ \A j \in i..(i + n - 1) : text[j + 1] \in UpperCase
        /\ wordBoundary(text, i)
        /\ wordBoundary(text, i + n)}

\* pattern.exec(text) with pattern.lastIndex = from: <<index, length>>, or <<>> for null
exec(text, from) ==
    LET starts == {i \in from..(Len(text) - 1) : matchLengths(text, i) # {}}
    IN  IF starts = {} THEN <<>>
        ELSE <<SetMin(starts), SetMax(matchLengths(text, SetMin(starts)))>>

Diagnostic(text, index, length, related) ==
    [severity |-> "Warning",
     range |-> [start |-> positionAt(text, index), end |-> positionAt(text, index + length)],
     message |-> substring(text, index, index + length),
     source |-> "ex",
     relatedInformation |-> IF related
                            THEN <<"Spelling matters", "Particularly for names">>
                            ELSE <<>>]

\* a loop that takes one problem too many
moreProblemsInclusive(problems, settings) == problems <= settings.maxNumberOfProblems

\* whether the loop takes one more problem
moreProblems(problems, settings) == problems < settings.maxNumberOfProblems

\* the while loop of validateTextDocument
RECURSIVE collectDiagnostics(_, _, _, _, _, _)
collectDiagnostics(text, settings, related, lastIndex, problems, diagnostics) ==
    LET m == exec(text, lastIndex)
    IN  IF m # <<>> /\ moreProblems(problems, settings)
        THEN collectDiagnostics(text, settings, related, m[1] + m[2], problems + 1,
                                Append(diagnostics, Diagnostic(text, m[1], m[2], related)))
        ELSE diagnostics

\* the diagnostics of every document under every settings value and capability,
\* tabulated
diagnosticsOf ==
    [doc \in DOMAIN Catalog |->
        [settings \in ClientSettings \cup {defaultSettings} |->
            [related \in BOOLEAN |->
                collectDiagnostics(Catalog[doc].text, settings, related, 0, 0, <<>>)]]]

\* the run that continues first, the document it reads and the settings it got
firstSettled == CHOOSE i \in 1..Len(runs) :
                    settled(runs[i]) /\ \A j \in 1..(i - 1) : ~settled(runs[j])
runDocument(run) == IF run.live THEN contentOf(run.uri) ELSE run.doc
runSettings(run) == IF run.promise.request = <<>> THEN run.promise.settings
                    ELSE requests[run.promise.request].settings

\* validateTextDocument from its await to its end; connection.sendDiagnostics is
\* recorded as the handler's result with the limit read and the run's start
resumeValidation ==
    /\ ~idle
    /\ LET run == runs[firstSettled]
           diagnostics == diagnosticsOf[runDocument(run)][runSettings(run)]
                                       [hasDiagnosticRelatedInformationCapability]
       IN  /\ runs' = [i \in 1..(Len(runs) - 1) |->
                         IF i < firstSettled THEN runs[i] ELSE runs[i + 1]]
           /\ requests' = inUse(requests, documentSettings, runs')
           /\ lastOp' = [Op("sendDiagnostics", run.uri) EXCEPT
                           !.doc = runDocument(run),
                           !.result = [limit |-> runSettings(run).maxNumberOfProblems,
                                       diagnostics |-> diagnostics,
                                       startedAt |-> run.startedAt,
                                       settingsMadeAt |-> run.promise.madeAt]]
    /\ UNCHANGED <<indexVars, capabilityVars, globalSettings, documentSettings, notifications>>

(***************************************************************************)
(* Initialization                                                          *)
(***************************************************************************)
\* params.capabilities of the initialize request
ClientCapabilities ==
    [workspace : BOOLEAN, configuration : BOOLEAN, workspaceFolders : BOOLEAN,
     relatedInformation : BOOLEAN]

\* the clients there can be: configuration and workspaceFolders are fields of
\* capabilities.workspace
Clients == {c \in ClientCapabilities : ~c.workspace => ~(c.configuration \/ c.workspaceFolders)}

\* a result that never advertises workspace folders
initializeResultWithoutFolders(capabilities) ==
    [textDocumentSync |-> "Incremental",
     hoverProvider |-> TRUE,
     completionProvider |-> [resolveProvider |-> TRUE],
     workspaceFolders |-> FALSE,
     definitionProvider |-> TRUE]

\* the InitializeResult's capabilities; workspaceFolders stands for
\* workspace.workspaceFolders.supported, FALSE when result.capabilities.workspace is not set
initializeResult(capabilities) ==
    [textDocumentSync |-> "Incremental",
     hoverProvider |-> TRUE,
     completionProvider |-> [resolveProvider |-> TRUE],
     workspaceFolders |-> (capabilities.workspace /\ capabilities.workspaceFolders),
     definitionProvider |-> TRUE]

\* connection.onInitialize
onInitialize(capabilities) ==
    /\ ~initialized
    /\ initialized' = TRUE
    /\ hasConfigurationCapability' = (capabilities.workspace /\ capabilities.configuration)
    /\ hasWorkspaceFolderCapability' = (capabilities.workspace /\ capabilities.workspaceFolders)
    /\ hasDiagnosticRelatedInformationCapability' = capabilities.relatedInformation
    /\ lastOp' = [Op("initialize", "") EXCEPT !.params = capabilities,
                                                !.result = initializeResult(capabilities)]
    /\ UNCHANGED <<indexVars, settingsVars, diagnosticVars>>

(***************************************************************************)
(* Specifications                                                          *)
(***************************************************************************)
\* the client of the index specification
IndexClient == [workspace |-> TRUE, configuration |-> TRUE, workspaceFolders |-> FALSE,
                relatedInformation |-> FALSE]

\* the declaration index under document events
Next ==
    \/ onInitialize(IndexClient)
    \/ \E uri \in Uris, doc \in IndexDocs : didOpen(uri, doc)
    \/ \E uri \in Uris, doc \in IndexDocs : didChange(uri, doc)
    \/ \E uri \in Uris : onDidClose(uri)

Spec == Init /\ [][Next]_vars

\* the index queried by hover and definition requests
NextHover ==
    \/ onInitialize(IndexClient)
    \/ \E uri \in Uris, doc \in HoverDocs : didOpen(uri, doc)
    \/ \E uri \in Uris, doc \in HoverDocs : didChange(uri, doc)
    \/ \E uri \in Uris : onDidClose(uri)
    \/ \E uri \in Uris :
         \E position \in IF uri \in openUris THEN DOMAIN hoverResults[contentOf(uri)]
                         ELSE {[line |-> 0, character |-> 0]} :
            onHover(uri, position)
    \/ \E uri \in Uris : onDefinition(uri)

SpecHover == Init /\ [][NextHover]_vars

\* the clients of the diagnostics specification
DiagClients ==
    {c \in ClientCapabilities :
        c.workspace /\ ~c.workspaceFolders /\ c.relatedInformation = c.configuration}

\* diagnostics, settings and configuration changes
NextDiag ==
    \/ \E capabilities \in DiagClients : onInitialize(capabilities)
    \/ \E uri \in Uris, doc \in DiagDocs : didOpen(uri, doc)
    \/ \E uri \in Uris, doc \in DiagDocs : didChange(uri, doc)
    \/ \E uri \in Uris : onDidClose(uri)
    \/ \E section \in Sections : onDidChangeConfiguration(section)
    \/ \E id \in DOMAIN requests, settings \in ClientSettings :
          configurationResponse(id, settings)
    \/ resumeValidation

\* a suspended validation continues once its settings are there, and the client
\* answers every configuration request
SpecDiag ==
    /\ Init /\ [][NextDiag]_vars
    /\ WF_vars(resumeValidation)
    /\ WF_vars(\E id \in DOMAIN requests, settings \in ClientSettings :
                  configurationResponse(id, settings))

\* the documents of the initialization specification
InitDocs == {"VarA", "FunA"}

\* initialization by any client, then document events
NextInit ==
    \/ \E capabilities \in Clients : onInitialize(capabilities)
    \/ \E uri \in Uris, doc \in InitDocs : didOpen(uri, doc)
    \/ \E uri \in Uris, doc \in InitDocs : didChange(uri, doc)
    \/ \E uri \in Uris : onDidClose(uri)

SpecInit == Init /\ [][NextInit]_vars

\* the documents and the cursor position of the event-loop specification
LoopDocs == {"VarA", "CtorFun"}
LoopPositions == {[line |-> 1, character |-> 5]}
\* the document the hover and definition requests of that specification are for
LoopUri == "u1"

\* every handler of the server on one event loop
NextLoop ==
    \/ \E capabilities \in DiagClients : onInitialize(capabilities)
    \/ \E uri \in Uris, doc \in LoopDocs : didOpen(uri, doc)
    \/ \E uri \in Uris, doc \in LoopDocs : didChange(uri, doc)
    \/ \E uri \in Uris : onDidClose(uri)
    \/ \E position \in LoopPositions : onHover(LoopUri, position)
    \/ onDefinition(LoopUri)
    \/ \E section \in Sections : onDidChangeConfiguration(section)
    \/ \E id \in DOMAIN requests, settings \in ClientSettings :
          configurationResponse(id, settings)
    \/ resumeValidation

SpecLoop == Init /\ [][NextLoop]_vars

(***************************************************************************)
(* Properties                                                              *)
(***************************************************************************)

\* C1: a definition request handled before any hover request returns no location,
\* whatever documents were opened or changed before it.
C1_DefinitionBeforeHoverIsEmpty ==
    (lastOp.op = "definition" /\ ~hovered) => lastOp.locations = <<>>

\* C2: a hover whose cursor is on a space, on a tab or on an empty line returns no
\* tooltip and leaves currentHover as it was.
C2_WhitespaceHoverHasNoEffect ==
    [][(lastOp'.op = "hover" /\ lastOp'.cursor \in {"space", "tab", "emptyLine"})
          => (lastOp'.tooltip = <<>> /\ currentHover' = currentHover)]_vars

\* C3: a definition request that directly follows a hover on a word that is a key of
\* the index returns exactly one location: it starts at (the item's line, the item's
\* pos) and ends at (the item's line, 0).
C3_DefinitionAfterHover ==
    (lastOp.op = "definition" /\ lastOp.afterHoverOn # <<>>
        /\ MapHas(declarationMap, lastOp.afterHoverOn))
    => LET item == declarationMap[lastOp.afterHoverOn]
       IN  /\ Len(lastOp.locations) = 1
           /\ lastOp.locations[1].range.start = [line |-> item.line, character |-> item.pos]
           /\ lastOp.locations[1].range.end = [line |-> item.line, character |-> Num(0)]
C3_Witness ==
    /\ lastOp.op = "definition" /\ lastOp.afterHoverOn = NameA
    /\ MapHas(declarationMap, NameA)
    /\ Len(lastOp.locations) = 1
    /\ lastOp.locations[1].range.start.character = Num(5)

\* the statements of a document the handler reaches: none without a root element,
\* else those before the first class with an unnamed member
reached(doc) ==
    IF Len(doc.roots) = 0 THEN {}
    ELSE {i \in 1..Len(doc.statements) :
            \A j \in 1..i :
                ~(doc.statements[j].kind = "ClassDeclaration"
                  /\ \E m \in 1..Len(doc.statements[j].members) :
                        doc.statements[j].members[m].name.node = "undefined")}
\* the statement declares key: a function or class by its name, a variable statement
\* by its first declarator
declares(node, key) ==
    \/ node.kind = "FunctionDeclaration" /\ truthy(escapedTextOf(node.name))
         /\ node.name.escapedText = key
    \/ node.kind = "VariableStatement" /\ node.declarations[1].name.escapedText = key
    \/ node.kind = "ClassDeclaration" /\ escapedTextOf(node.name) = key
itemOf(text, node) ==
    IF node.kind = "FunctionDeclaration" THEN functionItem(text, node)
    ELSE IF node.kind = "VariableStatement" THEN variableItem(text, node)
    ELSE classItem(text, node)
Keys == {NameA, NameB, Undefined}

\* C4: after a rebuild the entry of every name is the one written by the last
\* declaration of that name the rebuild reached, whatever the kinds of the
\* declarations; a name the rebuild did not reach keeps the entry it had.
C4_LastDeclarationWins ==
    [][lastOp'.op = "didChangeContent"
          => LET doc == Catalog[lastOp'.doc]
             IN  \A key \in Keys :
                    LET writers == {i \in reached(doc) : declares(doc.statements[i], key)}
                    IN  IF writers = {}
                        THEN /\ MapHas(declarationMap', key) = MapHas(declarationMap, key)
                             /\ MapHas(declarationMap, key)
                                   => declarationMap'[key] = declarationMap[key]
                        ELSE /\ MapHas(declarationMap', key)
                             /\ declarationMap'[key] =
                                   itemOf(scriptText(doc), doc.statements[SetMax(writers)])]_vars
C4_Witness ==
    /\ lastOp.op = "didChangeContent" /\ lastOp.doc = "FunVar"
    /\ MapHas(declarationMap, NameA)
    /\ declarationMap[NameA].type = "var"
    /\ DOMAIN declarationMap = {NameA, Undefined}

\* every statement of the document is a function or class declaration without a name
onlyAnonymous(doc) ==
    /\ Len(doc.roots) > 0 /\ Len(doc.statements) > 0
    /\ \A i \in 1..Len(doc.statements) :
          /\ doc.statements[i].kind \in {"FunctionDeclaration", "ClassDeclaration"}
          /\ doc.statements[i].name.node = "undefined"

\* C5: a rebuild over unnamed function and class declarations adds no entry under any
\* key and changes no entry.
C5_AnonymousDeclarationsSkipped ==
    [][(lastOp'.op = "didChangeContent" /\ onlyAnonymous(Catalog[lastOp'.doc]))
          => declarationMap' = declarationMap]_vars

\* C6: the document-change handler raises no error, whatever the document.
C6_ChangeHandlerNeverThrows ==
    lastOp.op = "didChangeContent" => ~lastOp.threw

\* C7: after every document open or change, diagnostics of that document are
\* eventually pushed.
C7_ChangePushesDiagnostics ==
    \A u \in Uris :
        (lastOp.op = "didChangeContent" /\ lastOp.uri = u)
            ~> (lastOp.op = "sendDiagnostics" /\ lastOp.uri = u)

\* the all-uppercase words of a text: the runs of two or more uppercase letters with
\* no word character before or after, as <<offset, length>>
upperWords(text) ==
    {w \in (0..Len(text)) \X (2..Len(text)) :
        /\ w[1] + w[2] <= Len(text)
        /\ \A i \in (w[1] + 1)..(w[1] + w[2]) : text[i] \in UpperCase
        /\ (w[1] = 0 \/ text[w[1]] \notin WordChars)
        /\ (w[1] + w[2] = Len(text) \/ text[w[1] + w[2] + 1] \notin WordChars)}
\* the j-th of them in text order
upperWord(text, j) ==
    CHOOSE w \in upperWords(text) :
        Cardinality({v \in upperWords(text) : v[1] < w[1]}) = j - 1

\* C8: a validation of a text with m all-uppercase words under a limit of k problems
\* pushes min(m, k) diagnostics, all warnings, one per word in text order from the
\* first.
C8_DiagnosticsPerUppercaseWord ==
    lastOp.op = "sendDiagnostics"
    => LET text == Catalog[lastOp.doc].text
           pushed == lastOp.result.diagnostics
       IN  /\ Len(pushed) = Min(Cardinality(upperWords(text)), lastOp.result.limit)
           /\ \A j \in 1..Len(pushed) :
                 LET w == upperWord(text, j)
                 IN  /\ pushed[j].severity = "Warning"
                     /\ pushed[j].message = SubSeq(text, w[1] + 1, w[1] + w[2])
                     /\ pushed[j].range.start = positionAt(text, w[1])
                     /\ pushed[j].range.end = positionAt(text, w[1] + w[2])
C8_Witness ==
    /\ lastOp.op = "sendDiagnostics"
    /\ Cardinality(upperWords(Catalog[lastOp.doc].text)) = 3
    /\ Len(lastOp.result.diagnostics) = 2

C10_DefinitionFollowsLastHoverWord ==
    lastOp.op = "definition"
    => IF lastWord # Undefined /\ MapHas(declarationMap, lastWord)
       THEN Len(lastOp.locations) = 1 /\ lastOp.locations[1].uri = lastOp.uri
       ELSE lastOp.locations = <<>>

\* C11: the initialize response always advertises hover, completion with resolve and
\* go-to-definition, and advertises workspace folders exactly when the client's
\* capabilities declare them (capabilities.workspace.workspaceFolders).
C11_InitializeAdvertises ==
    lastOp.op = "initialize"
    => /\ lastOp.result.hoverProvider
       /\ lastOp.result.completionProvider.resolveProvider
       /\ lastOp.result.definitionProvider
       /\ lastOp.result.workspaceFolders
             = (lastOp.params.workspace /\ lastOp.params.workspaceFolders)
C11_Witness ==
    /\ lastOp.op = "initialize"
    /\ lastOp.params.workspace /\ lastOp.params.workspaceFolders
    /\ ~lastOp.params.configuration
    /\ lastOp.result.workspaceFolders

\* the word of a line around an offset as the claim defines it: from the nearest space
\* at or before the offset, or the line start, to the next space at or after it, or
\* the line end; trimmed
spaceDelimitedWord(line, offset) ==
    LET before == {i \in 0..Min(offset, Len(line) - 1) : line[i + 1] = " "}
        after == {i \in offset..(Len(line) - 1) : line[i + 1] = " "}
        from == IF before = {} THEN 0 ELSE SetMax(before)
        to == IF after = {} THEN Len(line) ELSE SetMin(after)
    IN  trim(SubSeq(line, from + 1, to))
\* that word for every position of every document
spaceDelimitedWords ==
    [doc \in DOMAIN Catalog |->
        [position \in positionsIn(Catalog[doc].text) |->
            spaceDelimitedWord(hoverLine(Catalog[doc].text, position),
                               hoverIndex(Catalog[doc].text, position))]]

\* C12: the word a hover resolves is the space-delimited word of the cursor's line
\* around the cursor offset, trimmed, up to the line end when no space follows: the
\* last word of a line keeps its final character, on the last line of the document
\* too; a tooltip is returned exactly when that word is not empty.
C12_HoverWordIsSpaceDelimited ==
    (lastOp.op = "hover" /\ lastOp.cursor # "noDocument")
    => LET word == spaceDelimitedWords[lastOp.doc][lastOp.params]
       IN  IF word = <<>> THEN lastOp.tooltip = <<>>
           ELSE Len(lastOp.tooltip) = 1 /\ lastOp.tooltip[1].word = word

\* the rebuild of the document encounters a declaration of key
encounters(doc, key) == \E i \in reached(doc) : declares(doc.statements[i], key)

\* C13: no step removes a key of the index, so a name once recorded stays a key after
\* its declaration is deleted from the document; and a rebuild leaves the entry of
\* every name it does not encounter as it was.
C13_KeysNeverShrink ==
    [][/\ DOMAIN declarationMap \subseteq DOMAIN declarationMap'
       /\ lastOp'.op = "didChangeContent"
             => \A key \in DOMAIN declarationMap' :
                   ~encounters(Catalog[lastOp'.doc], key)
                      => (key \in DOMAIN declarationMap
                            /\ declarationMap'[key] = declarationMap[key])]_vars
C13_Witness ==
    /\ lastOp.op = "didChangeContent"
    /\ MapHas(declarationMap, NameB)
    /\ declarationMap[NameB].type = "var"
    /\ documents # <<>>
    /\ \A i \in 1..Len(documents) : ~encounters(Catalog[documents[i].doc], NameB)

\* the number of newline characters of a text before offset end
newlinesBefore(text, end) == Cardinality({k \in 1..Min(end, Len(text)) : text[k] = "\n"})
\* the statements the rebuild of a document reaches that write key last
lastWriter(doc, key) == SetMax({i \in reached(doc) : declares(doc.statements[i], key)})

\* C14: a variable statement the rebuild visits writes one entry: its key is the name of
\* the first declarator, its kind is variable and its line is the number of newline
\* characters of the script before the statement's end; the names of the later
\* declarators get no entry from it.
C14_VariableStatementEntry ==
    [][lastOp'.op = "didChangeContent"
          => LET doc == Catalog[lastOp'.doc]
             IN  \A i \in reached(doc) :
                    doc.statements[i].kind = "VariableStatement"
                    => LET node == doc.statements[i]
                           key == node.declarations[1].name.escapedText
                       IN  /\ node.declarations[1].name.node = "Identifier"
                           /\ truthy(key)
                           /\ MapHas(declarationMap', key)
                           /\ lastWriter(doc, key) = i
                                 => /\ declarationMap'[key].type = "var"
                                    /\ declarationMap'[key].escapedText = key
                                    /\ declarationMap'[key].line
                                          = newlinesBefore(scriptText(doc), node.end)
                           /\ \A j \in 2..Len(node.declarations) :
                                 LET later == node.declarations[j].name.escapedText
                                 IN  ~encounters(doc, later)
                                       => (MapHas(declarationMap', later)
                                             = MapHas(declarationMap, later))
                           /\ DOMAIN declarationMap' \ DOMAIN declarationMap
                                 \subseteq {k \in Keys : encounters(doc, k)}]_vars

\* the zero-based line of a text on which the token that ends at offset end stands
tokenLine(text, end) == positionAt(text, end - 1).line

\* the last statement of a document that declares key
lastDeclaration(doc, key) ==
    SetMax({i \in 1..Len(doc.statements) : declares(doc.statements[i], key)})

\* C15: for every named function declaration among the top-level statements of the
\* script, the rebuild writes an entry under the function's name: its kind is function
\* and its line is the number of newline characters of the script up to the end of the
\* name token, which is the zero-based line of the script on which the name stands.
C15_FunctionEntry ==
    [][lastOp'.op = "didChangeContent"
          => LET doc == Catalog[lastOp'.doc]
             IN  \A i \in 1..Len(doc.statements) :
                    (doc.statements[i].kind = "FunctionDeclaration"
                       /\ truthy(escapedTextOf(doc.statements[i].name)))
                    => LET name == doc.statements[i].name
                       IN  /\ MapHas(declarationMap', name.escapedText)
                           /\ lastDeclaration(doc, name.escapedText) = i
                                 => /\ declarationMap'[name.escapedText].type = "function"
                                    /\ declarationMap'[name.escapedText].line
                                          = newlinesBefore(scriptText(doc), name.end)
                                    /\ declarationMap'[name.escapedText].line
                                          = tokenLine(scriptText(doc), name.end)]_vars

\* C16: for every named class declaration among the top-level statements of the script,
\* the rebuild writes an entry under the class name: its kind is class and its children
\* are one entry per member, in member order, each of kind member and named after its
\* member; the entries of the other kinds have no children.
C16_ClassEntry ==
    [][lastOp'.op = "didChangeContent"
          => LET doc == Catalog[lastOp'.doc]
             IN  /\ \A i \in 1..Len(doc.statements) :
                       (doc.statements[i].kind = "ClassDeclaration"
                          /\ truthy(escapedTextOf(doc.statements[i].name)))
                       => LET node == doc.statements[i]
                              key == node.name.escapedText
                          IN  /\ MapHas(declarationMap', key)
                              /\ lastDeclaration(doc, key) = i
                                    => LET children == declarationMap'[key].children
                                       IN  /\ declarationMap'[key].type = "class"
                                           /\ children.present
                                           /\ Len(children.items) = Len(node.members)
                                           /\ \A j \in 1..Len(node.members) :
                                                 /\ children.items[j].type = "member"
                                                 /\ children.items[j].escapedText
                                                       = node.members[j].name.escapedText
                 /\ \A key \in DOMAIN declarationMap' :
                       declarationMap'[key].type # "class"
                          => ~declarationMap'[key].children.present]_vars

\* the run waits for the client's answer to its configuration request
awaitingSettings(run) ==
    run.promise.request # <<>> /\ ~requests[run.promise.request].answered
\* the steps that handle an event from the client
Events == {"didChangeContent", "didClose", "hover", "definition",
           "didChangeConfiguration", "configurationResponse"}

\* for every document and key, <<the entry the document's rebuild leaves under the
\* key>>, or <<>> when the rebuild does not encounter the key
encounteredItems ==
    [doc \in DOMAIN Catalog |->
        [key \in Keys |->
            IF encounters(Catalog[doc], key)
            THEN <<itemOf(scriptText(Catalog[doc]),
                          Catalog[doc].statements[lastWriter(Catalog[doc], key)])>>
            ELSE <<>>]]

C18_HoverLeavesIndex ==
    [][lastOp'.op = "hover"
          => /\ declarationMap' = declarationMap
             /\ ~lastOp'.threw
             /\ lastOp'.uri \notin openUris
                   => (lastOp'.tooltip = <<>> /\ currentHover' = currentHover)]_vars
C18_Witness ==
    /\ lastOp.op = "hover" /\ lastOp.uri \notin openUris
    /\ lastOp.tooltip = <<>>
    /\ documents # <<>>
    /\ currentHover = NameA
    /\ MapHas(declarationMap, NameA)

\* C19: every key of the settings cache is the uri of an open document, whatever
\* documents were opened, changed and closed and whatever validations are suspended;
\* for a client without the configuration capability the cache stays empty.
C19_CacheOnlyForOpenDocuments ==
    /\ DOMAIN documentSettings \subseteq openUris
    /\ ~hasConfigurationCapability => documentSettings = EmptyMap
C19_Witness ==
    /\ lastOp.op = "didClose"
    /\ DOMAIN documentSettings # {}
    /\ \E i \in 1..Len(runs) : runs[i].uri \notin openUris

\* C20: the index is one map for all documents.  A content change in any document
\* that declares a name replaces the entry of that name, whichever document wrote it,
\* by the entry of its own last declaration of the name; and a hover or a definition
\* request on the name, in whatever document, reports the offsets and the line of that
\* entry.
C20_IndexSharedAcrossDocuments ==
    [][/\ lastOp'.op = "didChangeContent"
             => LET doc == Catalog[lastOp'.doc]
                IN  \A key \in Keys \ {Undefined} :
                       (\E i \in 1..Len(doc.statements) : declares(doc.statements[i], key))
                       => /\ MapHas(declarationMap', key)
                          /\ declarationMap'[key]
                                = itemOf(scriptText(doc),
                                         doc.statements[lastDeclaration(doc, key)])
       /\ (lastOp'.op = "hover" /\ lastOp'.tooltip # <<>>
              /\ MapHas(declarationMap', lastOp'.tooltip[1].word))
             => /\ lastOp'.tooltip[1].pos = declarationMap'[lastOp'.tooltip[1].word].pos
                /\ lastOp'.tooltip[1].end = declarationMap'[lastOp'.tooltip[1].word].end
       /\ (lastOp'.op = "definition" /\ lastOp'.afterHoverOn # <<>>
              /\ MapHas(declarationMap', lastOp'.afterHoverOn))
             => /\ Len(lastOp'.locations) = 1
                /\ lastOp'.locations[1].uri = lastOp'.uri
                /\ lastOp'.locations[1].range.start
                      = [line |-> declarationMap'[lastOp'.afterHoverOn].line,
                         character |-> declarationMap'[lastOp'.afterHoverOn].pos]]_vars
====
